---- MODULE Spec2Model ----
(***************************************************************************)
(* Model of the blogicum blog views (blogicum/blog/views.py, forms.py).    *)
(* The state is the content of the Post and Comment tables, the clock read *)
(* by timezone.now(), and the response of the request being handled.       *)
(* Every view function is one action; the querysets, the visibility        *)
(* branches and Paginator.get_page are operators computed the way the code *)
(* computes them.  A view runs as one step: category_posts reads the clock *)
(* twice (lines 86 and 89), and both reads are the same instant here.      *)
(***************************************************************************)
EXTENDS Integers, Sequences, FiniteSets, TLC

VARIABLES posts, comments, seq, now, resp

vars == <<posts, comments, seq, now, resp>>

(***************************************************************************)
(* Bounds of the model.                                                    *)
(***************************************************************************)
\* Post rows in the table of the read-only specification.
MaxPosts == 2
\* Posts and comments the mutating specification creates.
MaxCreated == 2
MaxComments == 1
\* The clock runs over 1..MaxTime; publication dates are drawn from it too.
MaxTime == 2
\* Length of the longest feed of the pagination specification.
MaxFeed == 21

\* views.py line 12
PAGE == 10

(***************************************************************************)
(* Accounts (django.contrib.auth) and categories (rows of Category).       *)
(***************************************************************************)
Anonymous == "anon"
Users == {"u1", "u2"}
Viewers == Users \cup {Anonymous}

is_authenticated(user) == user \in Users
is_staff(user) == user = "u2"

\* Category rows by slug: c1 is published, c2 is not.  "c0" is a slug and
\* "u0" a username with no row behind it.
Categories == {"c1", "c2"}
NoCategory == "none"
Slugs == Categories \cup {"c0"}
Usernames == Users \cup {"u0"}
category_is_published(c) == c = "c1"

Times == 1..MaxTime
NoDate == 0

PostRows ==
  [author : Users, category : Categories \cup {NoCategory},
   is_published : BOOLEAN, pub_date : Times]

Texts == {"a", "b"}

(***************************************************************************)
(* request.GET.get('page'): absent, or a string of characters.             *)
(***************************************************************************)
NoPage == <<"absent">>
Digits == {"0", "1", "2", "3", "4", "5", "6", "7", "8", "9"}

DigitVal(c) ==
  CASE c = "0" -> 0 [] c = "1" -> 1 [] c = "2" -> 2 [] c = "3" -> 3
    [] c = "4" -> 4 [] c = "5" -> 5 [] c = "6" -> 6 [] c = "7" -> 7
    [] c = "8" -> 8 [] c = "9" -> 9

RECURSIVE DigitsVal(_)
DigitsVal(s) ==
  IF s = <<>> THEN 0 ELSE 10 * DigitsVal(SubSeq(s, 1, Len(s) - 1)) + DigitVal(s[Len(s)])

\* int(number) of Paginator.validate_number: an optional sign and digits.
IsInt(s) ==
  /\ s # NoPage
  /\ LET d == IF s # <<>> /\ s[1] \in {"-", "+"} THEN Tail(s) ELSE s
     IN  d # <<>> /\ \A i \in 1..Len(d) : d[i] \in Digits

ParseInt(s) ==
  IF s[1] = "-" THEN 0 - DigitsVal(Tail(s))
  ELSE IF s[1] = "+" THEN DigitsVal(Tail(s))
  ELSE DigitsVal(s)

\* Paginator.num_pages with orphans = 0 and allow_empty_first_page = True.
num_pages(count, per_page) ==
  LET hits == IF count > 1 THEN count ELSE 1
  IN  (hits + per_page - 1) \div per_page

\* Paginator.get_page: PageNotAnInteger gives page 1, EmptyPage the last page.
get_page_number(page, count, per_page) ==
  IF ~IsInt(page) THEN 1
  ELSE IF ParseInt(page) < 1 THEN num_pages(count, per_page)
  ELSE IF ParseInt(page) > num_pages(count, per_page) THEN num_pages(count, per_page)
  ELSE ParseInt(page)

Min(a, b) == IF a < b THEN a ELSE b

\* page_slice with the top of the slice one too far.
page_slice_overlap(queryset, number, per_page) ==
  SubSeq(queryset, (number - 1) * per_page + 1,
         IF number * per_page + 1 < Len(queryset)
         THEN number * per_page + 1 ELSE Len(queryset))

\* Paginator.page: the slice [bottom:top] of the object list.
page_slice(queryset, number, per_page) ==
  SubSeq(queryset, (number - 1) * per_page + 1, Min(number * per_page, Len(queryset)))

paginated_view(page, queryset, items_per_page) ==
  LET number == get_page_number(page, Len(queryset), items_per_page)
  IN  [number |-> number,
       num_pages |-> num_pages(Len(queryset), items_per_page),
       object_list |-> page_slice(queryset, number, items_per_page)]

(***************************************************************************)
(* Querysets.                                                              *)
(***************************************************************************)
\* The row that order_by('-pub_date') puts first: the newest, and among
\* equal dates the lowest primary key.
First(ids) ==
  CHOOSE i \in ids : \A j \in ids :
    \/ posts[i].pub_date > posts[j].pub_date
    \/ posts[i].pub_date = posts[j].pub_date /\ i <= j

RECURSIVE order_by_pub_date_desc(_)
order_by_pub_date_desc(ids) ==
  IF ids = {} THEN <<>>
  ELSE LET first == First(ids)
       IN  <<first>> \o order_by_pub_date_desc(ids \ {first})

\* kwargs: for each stored post, whether it matches the lookups.
filter_posts(kwargs) ==
  order_by_pub_date_desc({id \in DOMAIN posts : kwargs[id]})

\* A queryset with no order_by: the order is the model's Meta.ordering.
default_ordering(ids) == order_by_pub_date_desc(ids)

index_kwargs ==
  [id \in DOMAIN posts |->
     /\ posts[id].is_published
     /\ posts[id].category # NoCategory
     /\ category_is_published(posts[id].category)
     /\ posts[id].pub_date <= now]

index_posts == filter_posts(index_kwargs)

\* can_view without the author's branch.
can_view_without_author(post, user, t) ==
  IF /\ post.is_published
     /\ post.pub_date <= t
     /\ (post.category = NoCategory \/ category_is_published(post.category))
  THEN TRUE
  ELSE IF is_authenticated(user) /\ is_staff(user) THEN TRUE
  ELSE FALSE

\* The branch of post_detail (lines 52-60).
can_view(post, user, t) ==
  IF /\ post.is_published
     /\ post.pub_date <= t
     /\ (post.category = NoCategory \/ category_is_published(post.category))
  THEN TRUE
  ELSE IF is_authenticated(user) /\ post.author = user THEN TRUE
  ELSE IF is_authenticated(user) /\ is_staff(user) THEN TRUE
  ELSE FALSE

\* The branch of category_posts (lines 95-107).
can_view_post(post, user, t) ==
  IF /\ post.is_published
     /\ post.pub_date <= t
     /\ (post.category = NoCategory \/ category_is_published(post.category))
  THEN TRUE
  ELSE IF is_authenticated(user) /\ post.author = user THEN TRUE
  ELSE IF is_authenticated(user) /\ is_staff(user) THEN TRUE
  ELSE FALSE

\* get_category without is_published=True.
get_category_unpublished_too(slug) == slug \in Categories

\* get_object_or_404(Category, slug=category_slug, is_published=True)
get_category(slug) == slug \in Categories /\ category_is_published(slug)

all_category_posts(slug) ==
  filter_posts([id \in DOMAIN posts |->
                  /\ posts[id].is_published
                  /\ posts[id].pub_date <= now
                  /\ posts[id].category = slug])

\* visible_loop that inserts at the front of the list.
RECURSIVE visible_loop_insert_front(_, _, _)
visible_loop_insert_front(qs, user, visible) ==
  IF qs = <<>> THEN visible
  ELSE visible_loop_insert_front(Tail(qs), user,
         IF can_view_post(posts[Head(qs)], user, now)
         THEN <<Head(qs)>> \o visible ELSE visible)

\* The loop of category_posts (lines 93-110) over the queryset qs.
RECURSIVE visible_loop(_, _, _)
visible_loop(qs, user, visible) ==
  IF qs = <<>> THEN visible
  ELSE visible_loop(Tail(qs), user,
         IF can_view_post(posts[Head(qs)], user, now)
         THEN Append(visible, Head(qs)) ELSE visible)

visible_posts(slug, user) == visible_loop(all_category_posts(slug), user, <<>>)

profile_posts(username) ==
  default_ordering({id \in DOMAIN posts : posts[id].author = username})

(***************************************************************************)
(* Responses.                                                              *)
(***************************************************************************)
NoPageObj == [number |-> 0, num_pages |-> 0, object_list |-> <<>>]

Response(view, user, post_id, comment_id, name, page, status, page_obj) ==
  [view |-> view, user |-> user, post_id |-> post_id, comment_id |-> comment_id,
   name |-> name, page |-> page, status |-> status, page_obj |-> page_obj]

NoResponse == Response("none", Anonymous, 0, 0, "", NoPage, "none", NoPageObj)

(***************************************************************************)
(* The request cycle: the worker takes a request when it is idle, the view *)
(* computes the response, and the response is sent.                        *)
(***************************************************************************)
idle == resp = NoResponse

send_response ==
  /\ ~idle
  /\ resp' = NoResponse
  /\ UNCHANGED <<posts, comments, seq, now>>

\* timezone.now() moves forward between requests.
Tick ==
  /\ idle
  /\ now < MaxTime
  /\ now' = now + 1
  /\ UNCHANGED <<posts, comments, seq, resp>>

(***************************************************************************)
(* Read-only views.                                                        *)
(***************************************************************************)
index(user, page) ==
  /\ idle
  /\ resp' = Response("index", user, 0, 0, "", page, "200",
                      paginated_view(page, index_posts, PAGE))
  /\ UNCHANGED <<posts, comments, seq, now>>

post_detail_status(user, post_id) ==
  IF post_id \notin DOMAIN posts THEN "404"
  ELSE IF ~can_view(posts[post_id], user, now) THEN "404"
  ELSE "200"

post_detail(user, post_id) ==
  /\ idle
  /\ resp' = Response("post_detail", user, post_id, 0, "", NoPage,
                      post_detail_status(user, post_id), NoPageObj)
  /\ UNCHANGED <<posts, comments, seq, now>>

category_posts(user, category_slug, page) ==
  /\ idle
  /\ resp' = IF ~get_category(category_slug)
             THEN Response("category_posts", user, 0, 0, category_slug, page,
                           "404", NoPageObj)
             ELSE Response("category_posts", user, 0, 0, category_slug, page, "200",
                           paginated_view(page, visible_posts(category_slug, user), PAGE))
  /\ UNCHANGED <<posts, comments, seq, now>>

profile_view(user, username, page) ==
  /\ idle
  /\ resp' = IF username \notin Users
             THEN Response("profile_view", user, 0, 0, username, page, "404", NoPageObj)
             ELSE Response("profile_view", user, 0, 0, username, page, "200",
                           paginated_view(page, profile_posts(username), PAGE))
  /\ UNCHANGED <<posts, comments, seq, now>>

(***************************************************************************)
(* Forms (forms.py).  A PostForm carries category, pub_date and            *)
(* is_published among its fields; a CommentForm carries text.  A form that *)
(* does not validate is one value: its content is never saved.             *)
(***************************************************************************)
InvalidForm == [valid |-> FALSE]

PostForm ==
  [valid : {TRUE}, category : Categories \cup {NoCategory},
   pub_date : Times \cup {NoDate}, is_published : BOOLEAN]

CommentForm == [valid : {TRUE}, text : Texts]

Methods == {"GET", "POST"}

\* @login_required: an anonymous request is redirected to the login page.
login_required(view, user, post_id, comment_id) ==
  /\ ~is_authenticated(user)
  /\ resp' = Response(view, user, post_id, comment_id, "", NoPage, "login", NoPageObj)
  /\ UNCHANGED <<posts, comments, seq, now>>

Render(view, user, post_id, comment_id, status) ==
  Response(view, user, post_id, comment_id, "", NoPage, status, NoPageObj)

(***************************************************************************)
(* Views that change posts.                                                *)
(***************************************************************************)
\* new_post that keeps the is_published of the form.
new_post_as_submitted(user, form) ==
  [author |-> user,
   category |-> form.category,
   is_published |-> form.is_published,
   pub_date |-> IF form.pub_date = NoDate THEN now ELSE form.pub_date]

\* The post create_post saves from a valid form (lines 173-178).
new_post(user, form) ==
  [author |-> user,
   category |-> form.category,
   is_published |-> TRUE,
   pub_date |-> IF form.pub_date = NoDate THEN now ELSE form.pub_date]

create_post(user, method, form) ==
  /\ idle
  /\ \/ login_required("create_post", user, 0, 0)
     \/ /\ is_authenticated(user)
        /\ IF method = "POST" /\ form.valid
           THEN /\ seq.post <= MaxCreated
                /\ posts' = [id \in DOMAIN posts \cup {seq.post} |->
                               IF id = seq.post THEN new_post(user, form) ELSE posts[id]]
                /\ seq' = [seq EXCEPT !.post = @ + 1]
                /\ resp' = Render("create_post", user, seq.post, 0, "redirect_profile")
                /\ UNCHANGED <<comments, now>>
           ELSE /\ resp' = Render("create_post", user, 0, 0, "200")
                /\ UNCHANGED <<posts, comments, seq, now>>

\* ModelForm.save() on an instance: the form's fields replace the row's,
\* the author is no field of the form.
saved_post(post, form) ==
  [author |-> post.author,
   category |-> form.category,
   is_published |-> form.is_published,
   pub_date |-> form.pub_date]

\* is_post_author that lets staff through.
is_post_author_or_staff(user, post_id) ==
  posts[post_id].author = user \/ is_staff(user)

\* The test of lines 192 and 209.
is_post_author(user, post_id) == posts[post_id].author = user

edit_post(user, post_id, method, form) ==
  /\ idle
  /\ \/ login_required("edit_post", user, post_id, 0)
     \/ /\ is_authenticated(user)
        /\ IF post_id \notin DOMAIN posts
           THEN /\ resp' = Render("edit_post", user, post_id, 0, "404")
                /\ UNCHANGED <<posts, comments, seq, now>>
           ELSE IF ~is_post_author(user, post_id)
           THEN /\ resp' = Render("edit_post", user, post_id, 0, "redirect_detail")
                /\ UNCHANGED <<posts, comments, seq, now>>
           ELSE IF method = "POST" /\ form.valid
           THEN /\ posts' = [posts EXCEPT ![post_id] = saved_post(@, form)]
                /\ resp' = Render("edit_post", user, post_id, 0, "redirect_detail")
                /\ UNCHANGED <<comments, seq, now>>
           ELSE /\ resp' = Render("edit_post", user, post_id, 0, "200")
                /\ UNCHANGED <<posts, comments, seq, now>>

\* Deleting a post deletes the comments that refer to it.
cascade(post_id) ==
  [id \in {c \in DOMAIN comments : comments[c].post # post_id} |-> comments[id]]

delete_post(user, post_id, method) ==
  /\ idle
  /\ \/ login_required("delete_post", user, post_id, 0)
     \/ /\ is_authenticated(user)
        /\ IF post_id \notin DOMAIN posts
           THEN /\ resp' = Render("delete_post", user, post_id, 0, "404")
                /\ UNCHANGED <<posts, comments, seq, now>>
           ELSE IF ~is_post_author(user, post_id)
           THEN /\ resp' = Render("delete_post", user, post_id, 0, "redirect_detail")
                /\ UNCHANGED <<posts, comments, seq, now>>
           ELSE IF method = "POST"
           THEN /\ posts' = [id \in DOMAIN posts \ {post_id} |-> posts[id]]
                /\ comments' = cascade(post_id)
                /\ resp' = Render("delete_post", user, post_id, 0, "redirect_profile")
                /\ UNCHANGED <<seq, now>>
           ELSE /\ resp' = Render("delete_post", user, post_id, 0, "200")
                /\ UNCHANGED <<posts, comments, seq, now>>

(***************************************************************************)
(* Views that change comments.                                             *)
(***************************************************************************)
\* The test that lets add_comment save a comment on the post.
add_comment_allowed(user, post_id) == post_id \in DOMAIN posts

add_comment(user, post_id, method, form) ==
  /\ idle
  /\ \/ login_required("add_comment", user, post_id, 0)
     \/ /\ is_authenticated(user)
        /\ IF ~add_comment_allowed(user, post_id)
           THEN /\ resp' = Render("add_comment", user, post_id, 0, "404")
                /\ UNCHANGED <<posts, comments, seq, now>>
           ELSE IF method = "POST" /\ form.valid
           THEN /\ seq.comment <= MaxComments
                /\ comments' = [id \in DOMAIN comments \cup {seq.comment} |->
                                  IF id = seq.comment
                                  THEN [post |-> post_id, author |-> user,
                                        text |-> form.text]
                                  ELSE comments[id]]
                /\ seq' = [seq EXCEPT !.comment = @ + 1]
                /\ resp' = Render("add_comment", user, post_id, seq.comment,
                                  "redirect_detail")
                /\ UNCHANGED <<posts, now>>
           ELSE /\ resp' = Render("add_comment", user, post_id, 0, "200")
                /\ UNCHANGED <<posts, comments, seq, now>>

\* get_object_or_404(Comment, pk=comment_id, post__pk=post_id)
get_comment(post_id, comment_id) ==
  comment_id \in DOMAIN comments /\ comments[comment_id].post = post_id

\* The test of lines 250 and 275.
is_comment_author(user, comment_id) == comments[comment_id].author = user

\* Line 257 sets is_published on the comment, which no view reads.
edit_comment(user, post_id, comment_id, method, form) ==
  /\ idle
  /\ \/ login_required("edit_comment", user, post_id, comment_id)
     \/ /\ is_authenticated(user)
        /\ IF ~get_comment(post_id, comment_id)
           THEN /\ resp' = Render("edit_comment", user, post_id, comment_id, "404")
                /\ UNCHANGED <<posts, comments, seq, now>>
           ELSE IF ~is_comment_author(user, comment_id)
           THEN /\ resp' = Render("edit_comment", user, post_id, comment_id, "403")
                /\ UNCHANGED <<posts, comments, seq, now>>
           ELSE IF method = "POST" /\ form.valid
           THEN /\ comments' = [comments EXCEPT ![comment_id].text = form.text]
                /\ resp' = Render("edit_comment", user, post_id, comment_id,
                                  "redirect_detail")
                /\ UNCHANGED <<posts, seq, now>>
           ELSE /\ resp' = Render("edit_comment", user, post_id, comment_id, "200")
                /\ UNCHANGED <<posts, comments, seq, now>>

delete_comment(user, post_id, comment_id, method) ==
  /\ idle
  /\ \/ login_required("delete_comment", user, post_id, comment_id)
     \/ /\ is_authenticated(user)
        /\ IF ~get_comment(post_id, comment_id)
           THEN /\ resp' = Render("delete_comment", user, post_id, comment_id, "404")
                /\ UNCHANGED <<posts, comments, seq, now>>
           ELSE IF ~is_comment_author(user, comment_id)
           THEN /\ resp' = Render("delete_comment", user, post_id, comment_id, "403")
                /\ UNCHANGED <<posts, comments, seq, now>>
           ELSE IF method = "POST"
           THEN /\ comments' = [id \in DOMAIN comments \ {comment_id} |-> comments[id]]
                /\ resp' = Render("delete_comment", user, post_id, comment_id,
                                  "redirect_detail")
                /\ UNCHANGED <<posts, seq, now>>
           ELSE /\ resp' = Render("delete_comment", user, post_id, comment_id, "200")
                /\ UNCHANGED <<posts, comments, seq, now>>

(***************************************************************************)
(* The read-only specification: any table of at most MaxPosts posts.       *)
(***************************************************************************)
InitRead ==
  /\ \E n \in 0..MaxPosts : posts \in [1..n -> PostRows] /\ seq = [post |-> n + 1, comment |-> 1]
  /\ comments = <<>>
  /\ now = 1
  /\ resp = NoResponse

NextRead ==
  \/ \E user \in Viewers : index(user, NoPage)
  \/ \E user \in Viewers, post_id \in 1..(MaxPosts + 1) : post_detail(user, post_id)
  \/ \E user \in Viewers, slug \in Slugs : category_posts(user, slug, NoPage)
  \/ \E user \in Viewers, username \in Usernames : profile_view(user, username, NoPage)
  \/ send_response
  \/ Tick

SpecRead == InitRead /\ [][NextRead]_vars

(***************************************************************************)
(* The mutating specification: the tables start empty.                     *)
(***************************************************************************)
InitWrite ==
  /\ posts = <<>>
  /\ comments = <<>>
  /\ seq = [post |-> 1, comment |-> 1]
  /\ now = 1
  /\ resp = NoResponse

\* The ids a URL may carry: those of rows that can exist, and one more.
PostIds == 1..(MaxCreated + 1)
CommentIds == 1..(MaxComments + 1)

\* An edit form always carries a pub_date: the field is filled from the
\* instance, and a form without it does not validate.
NextWrite ==
  \/ \E user \in Viewers, method \in Methods, form \in PostForm \cup {InvalidForm} :
       create_post(user, method, form)
  \/ \E user \in Viewers, post_id \in PostIds, method \in Methods,
        form \in {f \in PostForm : f.pub_date # NoDate} \cup {InvalidForm} :
       edit_post(user, post_id, method, form)
  \/ \E user \in Viewers, post_id \in PostIds, method \in Methods :
       delete_post(user, post_id, method)
  \/ \E user \in Viewers, post_id \in PostIds, method \in Methods,
        form \in CommentForm \cup {InvalidForm} :
       add_comment(user, post_id, method, form)
  \/ \E user \in Viewers, post_id \in PostIds, comment_id \in CommentIds,
        method \in Methods, form \in CommentForm \cup {InvalidForm} :
       edit_comment(user, post_id, comment_id, method, form)
  \/ \E user \in Viewers, post_id \in PostIds, comment_id \in CommentIds,
        method \in Methods :
       delete_comment(user, post_id, comment_id, method)
  \/ send_response
  \/ Tick

SpecWrite == InitWrite /\ [][NextWrite]_vars

(***************************************************************************)
(* The pagination specification: a table of n published posts of u1 in the *)
(* published category, n up to MaxFeed, and every feed requested with      *)
(* every page parameter.                                                   *)
(***************************************************************************)
PageParams ==
  {NoPage, <<>>, <<"a">>, <<"1", ".", "5">>, <<"-", "1">>, <<"0">>, <<"1">>,
   <<"2">>, <<"3">>, <<"4">>, <<"1", "2">>}

InitPage ==
  /\ \E n \in 0..MaxFeed :
       /\ posts = [id \in 1..n |->
                     [author |-> "u1", category |-> "c1", is_published |-> TRUE,
                      pub_date |-> (id % MaxTime) + 1]]
       /\ seq = [post |-> n + 1, comment |-> 1]
  /\ comments = <<>>
  /\ now = MaxTime
  /\ resp = NoResponse

NextPage ==
  \/ \E user \in Viewers, page \in PageParams : index(user, page)
  \/ \E user \in Viewers, page \in PageParams : category_posts(user, "c1", page)
  \/ \E user \in Viewers, page \in PageParams : profile_view(user, "u1", page)
  \/ send_response

SpecPage == InitPage /\ [][NextPage]_vars

(***************************************************************************)
(* The visibility policy as the specification states it (section 4.1):     *)
(* author first, then staff, then the public gate.                         *)
(***************************************************************************)
PublicGate(post, t) ==
  /\ post.is_published
  /\ post.pub_date <= t
  /\ (post.category = NoCategory \/ category_is_published(post.category))

SpecCanView(post, viewer, t) ==
  IF viewer # Anonymous /\ viewer = post.author THEN TRUE
  ELSE IF viewer # Anonymous /\ is_staff(viewer) THEN TRUE
  ELSE PublicGate(post, t)

Range(s) == {s[i] : i \in 1..Len(s)}

NewestFirst(s) ==
  \A i, j \in 1..Len(s) : i < j => posts[s[i]].pub_date >= posts[s[j]].pub_date

RECURSIVE IsSubsequence(_, _)
IsSubsequence(a, b) ==
  IF a = <<>> THEN TRUE
  ELSE IF b = <<>> THEN FALSE
  ELSE IF Head(a) = Head(b) THEN IsSubsequence(Tail(a), Tail(b))
  ELSE IsSubsequence(a, Tail(b))

served(view) == resp.view = view /\ resp.status = "200"

(***************************************************************************)
(* C1: post_detail renders a stored post exactly when the specification's  *)
(* can_view holds for the requesting viewer at the time of the request,    *)
(* and answers not-found otherwise.                                        *)
(***************************************************************************)
C1_PostDetailIsCanView ==
  resp.view = "post_detail" =>
    /\ resp.status \in {"200", "404"}
    /\ resp.status = "200" <=>
         /\ resp.post_id \in DOMAIN posts
         /\ SpecCanView(posts[resp.post_id], resp.user, now)

\* The author, not staff, is shown their own unpublished post.
C1_Witness ==
  /\ served("post_detail")
  /\ ~posts[resp.post_id].is_published
  /\ posts[resp.post_id].author = resp.user
  /\ ~is_staff(resp.user)

(***************************************************************************)
(* C2: the home page feed holds exactly the stored posts the viewer can    *)
(* view under the specification's can_view.                                *)
(***************************************************************************)
C2_IndexIsCanView ==
  served("index") =>
    \A id \in DOMAIN posts :
      id \in Range(index_posts) <=> SpecCanView(posts[id], resp.user, now)

(***************************************************************************)
(* C3: the profile feed shows a viewer who is neither the profile's owner  *)
(* nor staff only posts that pass the public gate.                         *)
(***************************************************************************)
C3_ProfileHidesFromPublic ==
  served("profile_view") /\ resp.user # resp.name /\ ~is_staff(resp.user) =>
    \A id \in Range(profile_posts(resp.name)) : PublicGate(posts[id], now)

(***************************************************************************)
(* C4: a post of a published category is in the category's listing for a   *)
(* viewer exactly when post_detail renders it for that viewer.             *)
(***************************************************************************)
C4_ListingAgreesWithDetail ==
  served("category_posts") =>
    \A id \in DOMAIN posts :
      posts[id].category = resp.name =>
        (id \in Range(visible_posts(resp.name, resp.user))
           <=> post_detail_status(resp.user, id) = "200")

(***************************************************************************)
(* C6: the category page answers not-found for every viewer when the slug  *)
(* names no category or an unpublished one, and post_detail still renders  *)
(* a post of an unpublished category to its author and to staff.           *)
(***************************************************************************)
C6_CategoryPageGate ==
  /\ resp.view = "category_posts" =>
       (resp.status = "404" <=>
          (resp.name \notin Categories \/ ~category_is_published(resp.name)))
  /\ /\ resp.view = "post_detail"
     /\ resp.post_id \in DOMAIN posts
     /\ posts[resp.post_id].category \in Categories
     /\ ~category_is_published(posts[resp.post_id].category)
     /\ resp.user # Anonymous
     /\ (resp.user = posts[resp.post_id].author \/ is_staff(resp.user))
     => resp.status = "200"

\* The author of a post of the unpublished category asks for its page.
C6_Witness ==
  /\ resp.view = "category_posts"
  /\ resp.status = "404"
  /\ resp.name = "c2"
  /\ \E id \in DOMAIN posts :
       posts[id].category = "c2" /\ posts[id].author = resp.user

(***************************************************************************)
(* C7: every feed lists its posts newest pub_date first, and the category  *)
(* listing is a subsequence of its query result, in the same order.        *)
(***************************************************************************)
C7_OrderPreserved ==
  /\ served("index") =>
       /\ NewestFirst(resp.page_obj.object_list)
       /\ resp.page_obj.object_list = index_posts
  /\ served("profile_view") => NewestFirst(resp.page_obj.object_list)
  /\ served("category_posts") =>
       /\ NewestFirst(resp.page_obj.object_list)
       /\ IsSubsequence(resp.page_obj.object_list, all_category_posts(resp.name))

\* A category listing of two posts of different dates.
C7_Witness ==
  /\ served("category_posts")
  /\ Len(resp.page_obj.object_list) = 2
  /\ posts[resp.page_obj.object_list[1]].pub_date
       > posts[resp.page_obj.object_list[2]].pub_date
  /\ resp.page_obj.object_list[1] > resp.page_obj.object_list[2]

(***************************************************************************)
(* C8: a feed page holds at most PAGE posts; a page parameter that is      *)
(* missing, not a number, below 1 or beyond the last page gives the first  *)
(* or the last page instead of a failure; and the pages 1..num_pages hold  *)
(* every post of the feed exactly once.                                    *)
(***************************************************************************)
RECURSIVE PageParam(_)
PageParam(k) ==
  LET d == CHOOSE c \in Digits : DigitVal(c) = k % 10
  IN  IF k < 10 THEN <<d>> ELSE Append(PageParam(k \div 10), d)

Feed ==
  CASE resp.view = "index" -> index_posts
    [] resp.view = "category_posts" -> visible_posts(resp.name, resp.user)
    [] resp.view = "profile_view" -> profile_posts(resp.name)

FeedViews == {"index", "category_posts", "profile_view"}

C8_Pagination ==
  resp.view \in FeedViews =>
    LET po == resp.page_obj
        feed == Feed
        last == po.num_pages
    IN  /\ resp.status = "200"
        /\ po.number \in 1..last
        /\ Len(po.object_list) <= PAGE
        /\ (~IsInt(resp.page) => po.number = 1)
        /\ (IsInt(resp.page) /\ ParseInt(resp.page) \in 1..last
              => po.number = ParseInt(resp.page))
        /\ (IsInt(resp.page) /\ ParseInt(resp.page) \notin 1..last
              => po.number \in {1, last})
        /\ po.object_list = paginated_view(PageParam(po.number), feed, PAGE).object_list
        \* the pages 1..last, one after the other, are the feed
        /\ \A k \in 1..last :
             LET page_k == paginated_view(PageParam(k), feed, PAGE).object_list
             IN  /\ Len(page_k) = IF k < last THEN PAGE ELSE Len(feed) - (last - 1) * PAGE
                 /\ \A i \in 1..Len(page_k) : page_k[i] = feed[(k - 1) * PAGE + i]

\* A page number beyond the last of three pages gives the last page.
C8_Witness ==
  /\ served("index")
  /\ IsInt(resp.page)
  /\ ParseInt(resp.page) > resp.page_obj.num_pages
  /\ resp.page_obj.num_pages = 3
  /\ resp.page_obj.number = 3
  /\ Len(resp.page_obj.object_list) = Len(index_posts) - 2 * PAGE

(***************************************************************************)
(* Steps of the mutating views, as seen from a pair of states: the request *)
(* handled by the step is resp', and the rows it found are the unprimed    *)
(* ones.                                                                   *)
(***************************************************************************)
PostTouched(id) == id \notin DOMAIN posts' \/ posts'[id] # posts[id]

CommentTouched(c) == c \notin DOMAIN comments' \/ comments'[c] # comments[c]

\* edit_post or delete_post asked by an authenticated user who is not the
\* author of the stored post.
PostRefusedCase ==
  /\ resp'.view \in {"edit_post", "delete_post"}
  /\ resp'.post_id \in DOMAIN posts
  /\ resp'.user # Anonymous
  /\ resp'.user # posts[resp'.post_id].author

\* edit_comment or delete_comment asked by an authenticated user who is not
\* the author of the stored comment of that post.
CommentRefusedCase ==
  /\ resp'.view \in {"edit_comment", "delete_comment"}
  /\ resp'.comment_id \in DOMAIN comments
  /\ comments[resp'.comment_id].post = resp'.post_id
  /\ resp'.user # Anonymous
  /\ resp'.user # comments[resp'.comment_id].author

RefusalsChangeNothing ==
  /\ PostRefusedCase =>
       resp'.status = "redirect_detail" /\ UNCHANGED <<posts, comments>>
  /\ CommentRefusedCase =>
       resp'.status = "403" /\ UNCHANGED <<posts, comments>>

PostsChangeByAuthor ==
  \A id \in DOMAIN posts :
    PostTouched(id) =>
      /\ resp'.view \in {"edit_post", "delete_post"}
      /\ resp'.post_id = id
      /\ resp'.user = posts[id].author

\* The comment goes with its post, deleted by the post's author.
DeletedWithPost(c) ==
  /\ c \notin DOMAIN comments'
  /\ resp'.view = "delete_post"
  /\ resp'.post_id = comments[c].post
  /\ resp'.post_id \notin DOMAIN posts'
  /\ resp'.user = posts[comments[c].post].author

C9_CommentOnlyOnViewable ==
  resp.view = "add_comment" /\ resp.comment_id \in DOMAIN comments =>
    /\ resp.user # Anonymous
    /\ comments[resp.comment_id].author = resp.user
    /\ comments[resp.comment_id].post = resp.post_id
    /\ SpecCanView(posts[resp.post_id], resp.user, now)

(***************************************************************************)
(* C10: a post stored by create_post is published and has the requester as *)
(* its author whatever the form said; a stored post stops being published  *)
(* only in an edit_post request of its author; no step changes the author  *)
(* of a stored post.                                                       *)
(***************************************************************************)
C10_CreatedPublishedByAuthor ==
  [][/\ \A id \in DOMAIN posts' \ DOMAIN posts :
          /\ resp'.view = "create_post"
          /\ resp'.user # Anonymous
          /\ posts'[id].author = resp'.user
          /\ posts'[id].is_published
     /\ \A id \in DOMAIN posts \cap DOMAIN posts' :
          /\ posts'[id].author = posts[id].author
          /\ posts[id].is_published /\ ~posts'[id].is_published =>
               /\ resp'.view = "edit_post"
               /\ resp'.post_id = id
               /\ resp'.user = posts[id].author]_vars

\* The author has unpublished a post that create_post stored as published.
C10_Witness ==
  /\ resp.view = "edit_post"
  /\ resp.status = "redirect_detail"
  /\ resp.post_id \in DOMAIN posts
  /\ posts[resp.post_id].author = resp.user
  /\ ~posts[resp.post_id].is_published

====
